---- MODULE Spec2Model ----
(***************************************************************************)
(* robot_calibration ChainManager (src/util/chain_manager.cpp): the joint  *)
(* state store fed by the /joint_states subscription, moveToState's        *)
(* dispatch of one goal per chain, and waitToSettle's polling loop.        *)
(*                                                                         *)
(* Units: durations are integers in tenths of a second (5.0 s = 50); a     *)
(* result-wait timeout is kept in twentieths of a second, so that the      *)
(* code's max_duration * 1.5 is the exact integer 3 * max_duration.        *)
(* Velocities are integers in units of 0.0005 rad/s, so that the code's    *)
(* threshold 0.001 is 2 and a non-zero velocity below it exists.           *)
(***************************************************************************)
EXTENDS Integers, Sequences, FiniteSets, TLC

\* ---------------------------------------------------------------- bounds
\* Most chains a configuration registers.
MaxChains == 2
\* Longest state-stream message (entries of its longest array).
MaxMsgLen == 2
\* Latest clock reading (node->now()) a behaviour reaches.
MaxClock == 2

\* ------------------------------------------------------ program constants
\* fabs(velocity) < 0.001, in units of 0.0005 rad/s.
VelThreshold == 2
\* declare_parameter("duration", 5.0), in tenths of a second.
DefaultDuration == 50
\* rclcpp::Duration::from_seconds(1.0), the goal time tolerance.
GoalTimeTolerance == 10

\* ------------------------------------------------------------ input sets
Joints == {"j1", "j2"}
Positions == {10, 20}
Velocities == {-2, 1, 2}

Max(a, b) == IF a >= b THEN a ELSE b
Abs(x) == IF x < 0 THEN -x ELSE x

\* All sequences over S of length at most n.
SeqsUpTo(S, n) == UNION {[1..k -> S] : k \in 0..n}

Range(s) == {s[k] : k \in 1..Len(s)}

\* sensor_msgs::msg::JointState, the three arrays the code reads.
EmptyState == [name |-> <<>>, position |-> <<>>, velocity |-> <<>>]

\* ------------------------------------------------------- joint state store
\* Index of the first entry of names equal to n, Len(names) + 1 when there is
\* none: the inner search loops of stateCallback and makePoint.
RECURSIVE FindFrom(_, _, _)
FindFrom(names, n, j) ==
  IF j > Len(names) THEN j
  ELSE IF names[j] = n THEN j
  ELSE FindFrom(names, n, j + 1)

Find(names, n) == FindFrom(names, n, 1)

\* One pass of stateCallback's outer loop body for message entry msg_j.
MergeJoint(s, m, msg_j) ==
  LET state_j == Find(s.name, m.name[msg_j])
  IN IF state_j <= Len(s.name)
     THEN [s EXCEPT !.position[state_j] = m.position[msg_j],
                    !.velocity[state_j] = m.velocity[msg_j]]
     ELSE [name |-> Append(s.name, m.name[msg_j]),
           position |-> Append(s.position, m.position[msg_j]),
           velocity |-> Append(s.velocity, m.velocity[msg_j])]

\* stateCallback's outer loop from entry msg_j to the end of the message.
RECURSIVE MergeFrom(_, _, _)
MergeFrom(s, m, msg_j) ==
  IF msg_j > Len(m.name) THEN s
  ELSE MergeFrom(MergeJoint(s, m, msg_j), m, msg_j + 1)

\* A slip of the second check: != written as >.
SizesAgreeSlip(m) ==
  /\ Len(m.name) = Len(m.position)
  /\ ~(Len(m.position) > Len(m.velocity))

\* The two size checks stateCallback makes before it takes the lock.
SizesAgree(m) ==
  /\ Len(m.name) = Len(m.position)
  /\ Len(m.position) = Len(m.velocity)


\* A slip of the search: a joint already stored is appended again.
StateCallbackAppends(st, m) ==
  IF ~SizesAgree(m) THEN st
  ELSE [state |-> [name |-> st.state.name \o m.name,
                   position |-> st.state.position \o m.position,
                   velocity |-> st.state.velocity \o m.velocity],
        valid |-> TRUE]

\* The whole of stateCallback on the store st = [state, valid].
StateCallback(st, m) ==
  IF ~SizesAgree(m) THEN st
  ELSE [state |-> MergeFrom(st.state, m, 1), valid |-> TRUE]

\* getState: the copy and the flag it returns.
GetState(st) == [state |-> st.state, valid |-> st.valid]

\* ------------------------------------------------------------ construction
\* ChainController::shouldPlan(): a chain with a planning group is planned.
ShouldPlan(c) == c.chain_planning_group # ""

\* The constructor's loop over the configured chains. params[k] holds chain
\* k's parameters and the outcome of its waitForServer; mgUp is the outcome
\* of move_group_'s waitForServer, were it made.
\* A slip of line 61: the client is made anew for each chain that plans.
RECURSIVE CtorLoopRecreates(_, _, _)
CtorLoopRecreates(params, mgUp, acc) ==
  IF params = <<>> THEN acc
  ELSE LET par == Head(params)
           controller == [joint_names |-> par.joints,
                          chain_planning_group |-> par.planning_group,
                          connected |-> par.server_up]
           mg == IF ShouldPlan(controller)
                 THEN [exists |-> TRUE, connected |-> mgUp,
                       inits |-> acc.move_group_.inits + 1,
                       waits |-> acc.move_group_.waits + 1]
                 ELSE acc.move_group_
       IN CtorLoopRecreates(Tail(params), mgUp,
                   [controllers_ |-> Append(acc.controllers_, controller),
                    move_group_ |-> mg])

RECURSIVE CtorLoop(_, _, _)
CtorLoop(params, mgUp, acc) ==
  IF params = <<>> THEN acc
  ELSE LET par == Head(params)
           controller == [joint_names |-> par.joints,
                          chain_planning_group |-> par.planning_group,
                          connected |-> par.server_up]
           create == ShouldPlan(controller) /\ ~acc.move_group_.exists
           mg == IF create
                 THEN [exists |-> TRUE, connected |-> mgUp,
                       inits |-> acc.move_group_.inits + 1,
                       waits |-> acc.move_group_.waits + 1]
                 ELSE acc.move_group_
       IN CtorLoop(Tail(params), mgUp,
                   [controllers_ |-> Append(acc.controllers_, controller),
                    move_group_ |-> mg])

NoMoveGroup == [exists |-> FALSE, connected |-> FALSE, inits |-> 0, waits |-> 0]

ChainManager(params, mgUp) ==
  CtorLoop(params, mgUp, [controllers_ |-> <<>>, move_group_ |-> NoMoveGroup])

\* ----------------------------------------------------------------- makePoint
ZeroPoint == [positions |-> <<>>, velocities |-> <<>>, accelerations |-> <<>>,
              time_from_start |-> 0]

\* makePoint's loop from joint i on; exited is the exit(-1) of line 153.
RECURSIVE MakePointFrom(_, _, _, _)
MakePointFrom(state, joints, i, p) ==
  IF i > Len(joints) THEN [exited |-> FALSE, p |-> p]
  ELSE LET j == Find(state.name, joints[i])
       IN IF j > Len(state.name)
          THEN [exited |-> TRUE,
                p |-> [p EXCEPT !.velocities = Append(@, 0),
                                !.accelerations = Append(@, 0)]]
          ELSE MakePointFrom(state, joints, i + 1,
                 [p EXCEPT !.positions = Append(@, state.position[j]),
                           !.velocities = Append(@, 0),
                           !.accelerations = Append(@, 0)])

\* A slip of lines 150-154: a joint the state does not name is passed over.
RECURSIVE MakePointSkipsFrom(_, _, _, _)
MakePointSkipsFrom(state, joints, i, p) ==
  IF i > Len(joints) THEN [exited |-> FALSE, p |-> p]
  ELSE LET j == Find(state.name, joints[i])
           q == [p EXCEPT !.velocities = Append(@, 0),
                          !.accelerations = Append(@, 0)]
       IN IF j > Len(state.name)
          THEN MakePointSkipsFrom(state, joints, i + 1, q)
          ELSE MakePointSkipsFrom(state, joints, i + 1,
                 [q EXCEPT !.positions = Append(@, state.position[j])])

MakePointSkips(state, joints) == MakePointSkipsFrom(state, joints, 1, ZeroPoint)

MakePoint(state, joints) == MakePointFrom(state, joints, 1, ZeroPoint)

\* --------------------------------------------------------------- variables
VARIABLES
  chain_names,       \* history: the chains the parameters name, in order
  controllers_,      \* the registered chains, in configuration order
  move_group_,       \* the planning client: exists, connected, inits, waits
  duration_,         \* parameter "duration"
  settling_timeout_, \* parameter "settling_timeout"
  state_,            \* the stored JointState
  state_is_valid_,   \* the validity flag
  mpc,               \* moveToState: position in the call
  mi,                \* moveToState: loop index i (1-based)
  max_duration,      \* moveToState: local max_duration
  target,            \* moveToState: its argument
  events,            \* calls made on the planner and the command channels
  mret,              \* moveToState: "true" or "false" once returned, "none" before
  wait_failed,       \* some result wait of this call timed out or failed
  msg,               \* the message last handed to stateCallback
  seen,              \* history: joint names of the accepted messages so far
  latest,            \* history: per joint, values of its latest accepted entry
  wpc,               \* waitToSettle: position in the call
  snapshot,          \* waitToSettle: its local state, the copy getState made
  snapshot_valid,    \* what the last getState returned
  start,             \* waitToSettle: the start time it recorded
  now,               \* the clock, node->now()
  wret,              \* waitToSettle: "true" or "false" once returned
  touched,           \* history: what the call did to the store, stream, clock
  updated,           \* history: an accepted update was applied since the call began
  fresh,             \* history: joint names those updates wrote
  settled_at_call,   \* history: the store was valid and still when the call began
  state_mutex_,      \* the holder of the state lock, "free" when none
  cpc,               \* a stateCallback running on another thread: position
  msg_j,             \* that stateCallback's loop index
  rpc,               \* a getState or invalidation on this thread: position
  boundary,          \* history: the store before the update in progress
  torn               \* history: the last copy fell inside an update

cfgVars == <<chain_names, controllers_, move_group_, duration_, settling_timeout_>>
storeVars == <<state_, state_is_valid_>>
moveVars == <<mpc, mi, max_duration, target, events, mret, wait_failed>>
streamVars == <<msg, seen, latest>>
settleVars == <<wpc, snapshot, snapshot_valid, start, now, wret, touched,
                updated, fresh, settled_at_call>>
lockVars == <<state_mutex_, cpc, msg_j, rpc, boundary, torn>>
vars == <<cfgVars, storeVars, moveVars, streamVars, settleVars, lockVars>>
notMove == <<cfgVars, storeVars, streamVars, settleVars, lockVars>>
notStream == <<cfgVars, moveVars, settleVars, lockVars>>
notSettle == <<cfgVars, moveVars, streamVars, lockVars>>
Store == [state |-> state_, valid |-> state_is_valid_]

\* ------------------------------------------------------------ configuration
ChainJointLists == {<<"j1">>, <<"j1", "j2">>}
PlanningGroups == {"", "arm"}

ChainParams ==
  [joints : ChainJointLists, planning_group : PlanningGroups, server_up : BOOLEAN]

Configurations == SeqsUpTo(ChainParams, MaxChains)

\* A directly actuated chain whose command channel connected.
DirectChain(joints) == [joints |-> joints, planning_group |-> "", server_up |-> TRUE]

\* Values of the parameter "settling_timeout" (0 disables the timeout).
SettlingTimeouts == {-1, 0, 1}

\* What a read of duration_ or settling_timeout_ can give when the
\* constructor returned at line 40, before it set them.
UnsetDoubles == {0, 1, DefaultDuration}

\* The state after the constructor ran on the parameters params, with the
\* parameter "settling_timeout" set to timeout. With no chain configured it
\* returns at line 40: duration_ and settling_timeout_ are left unset and the
\* subscription to /joint_states is not made.
Constructed(params, mgUp, timeout) ==
  LET cm == ChainManager(params, mgUp)
  IN /\ chain_names = params
     /\ controllers_ = cm.controllers_
     /\ move_group_ = cm.move_group_
     /\ IF params = <<>>
        THEN duration_ \in UnsetDoubles /\ settling_timeout_ \in UnsetDoubles
        ELSE duration_ = DefaultDuration /\ settling_timeout_ = timeout
     /\ state_ = EmptyState
     /\ state_is_valid_ = FALSE

\* Lines 37-41, 84-85: stateCallback is subscribed only when the constructor
\* got past the check of the chain names.
Subscribed == Len(controllers_) > 0

\* No message handled yet.
NoMsg == EmptyState
Unseen == <<>>
StreamIdle ==
  /\ msg = NoMsg
  /\ seen = {}
  /\ latest = [n \in Joints |-> Unseen]

SettleIdle ==
  /\ wpc = "idle"
  /\ snapshot = EmptyState
  /\ snapshot_valid = FALSE
  /\ start = 0
  /\ wret = "none"
  /\ touched = {}
  /\ updated = FALSE
  /\ fresh = {}
  /\ settled_at_call = FALSE

LockIdle ==
  /\ state_mutex_ = "free"
  /\ cpc = "idle"
  /\ msg_j = 0
  /\ rpc = "idle"
  /\ boundary = [state |-> EmptyState, valid |-> FALSE]
  /\ torn = FALSE

MoveIdle ==
  /\ mpc = "idle"
  /\ mi = 0
  /\ max_duration = 0
  /\ target = EmptyState
  /\ events = <<>>
  /\ mret = "none"
  /\ wait_failed = FALSE

\* -------------------------------------------------------------- the planner
\* Final-waypoint times the planner's trajectories carry (tenths of a second):
\* one below the configured duration and one above it.
TrajectoryTimes == {20, 82}

\* The waypoint lists of the planner's trajectories; << >> is a result that
\* reports success and carries no waypoint.
PlannedPoints ==
  {<<>>, <<[time_from_start |-> 82]>>,
   <<[time_from_start |-> 82], [time_from_start |-> 20]>>}

ErrorCodes == {"SUCCESS", "PLANNING_FAILED"}

\* What the planner does while move_group_->waitForResult(60 s) runs: it
\* delivers a result for the request just sent, or the wait elapses.
PlannerAnswers ==
  [delivered : {TRUE}, error_code : ErrorCodes, points : PlannedPoints]
    \cup {[delivered |-> FALSE, error_code |-> "none", points |-> <<>>]}

\* ActionClient::getResult after the wait: the result delivered for this
\* request; after an elapsed wait a failure (spec 5: exceeding the bounded
\* wait degrades to a returned failure for plan results).
GetResult(answer) ==
  IF answer.delivered
  THEN [error_code |-> answer.error_code, points |-> answer.points]
  ELSE [error_code |-> "TIMED_OUT", points |-> <<>>]

\* Values the read of points[size - 1] of an empty waypoint list can give,
\* when the process survives it.
EmptyReadValues == {0, 200}

\* ------------------------------------------------------------- moveToState
\* max_duration * 1.5, in twentieths of a second.
WaitTimeout(d) == 3 * d

\* A slip of line 204: the error code is not looked at.
PlanFailedIgnored(result) == FALSE

\* Line 204: the test of the plan result that makes moveToState return false.
PlanFailed(result) == result.error_code # "SUCCESS"

\* Position after the dispatch of chain i: the next chain, or the wait loop.
AfterDispatch(i) ==
  IF i + 1 > Len(controllers_)
  THEN /\ mpc' = "wait"
       /\ mi' = 1
  ELSE /\ mpc' = "dispatch"
       /\ mi' = i + 1

\* A slip of lines 204-208: the failed chain is skipped and the loop goes on.
PlanFailureContinues(request) ==
  /\ events' = Append(events, request)
  /\ mret' = "false"
  /\ AfterDispatch(mi)
  /\ UNCHANGED max_duration

\* Lines 204-208: unable to plan, return false.
PlanFailure(request) ==
  /\ events' = Append(events, request)
  /\ mret' = "false"
  /\ mpc' = "returned"
  /\ UNCHANGED <<mi, max_duration>>

\* Lines 159-164: entry, max_duration = duration_.
MoveToState(t) ==
  /\ mpc = "idle"
  /\ target' = t
  /\ max_duration' = duration_
  /\ events' = <<>>
  /\ IF Len(controllers_) = 0
     THEN mpc' = "wait" /\ mi' = 1
     ELSE mpc' = "dispatch" /\ mi' = 1
  /\ UNCHANGED <<mret, wait_failed, notMove>>

\* A slip of lines 150-154: the chain with the missing joint is passed over
\* and the loop goes on.
DispatchExitSkips ==
  /\ mpc = "dispatch"
  /\ MakePoint(target, controllers_[mi].joint_names).exited
  /\ AfterDispatch(mi)
  /\ UNCHANGED <<max_duration, target, events, mret, wait_failed, notMove>>

\* Lines 169, 150-154: makePoint finds a joint of chain mi missing: exit(-1).
DispatchExit ==
  /\ mpc = "dispatch"
  /\ MakePoint(target, controllers_[mi].joint_names).exited
  /\ mpc' = "exited"
  /\ UNCHANGED <<mi, max_duration, target, events, mret, wait_failed,
                 notMove>>

\* A slip of lines 214-224: the result is awaited right after the send.
DispatchDirectWaits ==
  /\ mpc = "dispatch"
  /\ LET c == controllers_[mi]
         mp == MakePoint(target, c.joint_names)
         goal == [joint_names |-> c.joint_names,
                  points |-> <<[mp.p EXCEPT !.time_from_start = duration_]>>,
                  goal_time_tolerance |-> GoalTimeTolerance]
     IN /\ ~mp.exited
        /\ ~ShouldPlan(c)
        /\ events' = events \o
             <<[op |-> "sendGoal", chain |-> mi, goal |-> goal],
               [op |-> "waitForResult", chain |-> mi,
                timeout |-> 3 * max_duration]>>
  /\ AfterDispatch(mi)
  /\ UNCHANGED <<max_duration, target, mret, wait_failed, notMove>>

\* Lines 166-169, 214-224: a directly actuated chain.
DispatchDirect ==
  /\ mpc = "dispatch"
  /\ LET c == controllers_[mi]
         mp == MakePoint(target, c.joint_names)
         goal == [joint_names |-> c.joint_names,
                  points |-> <<[mp.p EXCEPT !.time_from_start = duration_]>>,
                  goal_time_tolerance |-> GoalTimeTolerance]
     IN /\ ~mp.exited
        /\ ~ShouldPlan(c)
        /\ events' = Append(events, [op |-> "sendGoal", chain |-> mi, goal |-> goal])
  /\ AfterDispatch(mi)
  /\ UNCHANGED <<max_duration, target, mret, wait_failed, notMove>>

\* Lines 166-212, 221-224: a planned chain, with the planner's answer and,
\* for an empty waypoint list, the outcome of the read of line 211 (the
\* process dies, or the value read is taken as the duration).
DispatchPlanned(answer, crash, read) ==
  /\ mpc = "dispatch"
  /\ LET c == controllers_[mi]
         mp == MakePoint(target, c.joint_names)
         request == [op |-> "plan", chain |-> mi,
                     client |-> move_group_.exists,
                     group_name |-> c.chain_planning_group,
                     positions |-> mp.p.positions,
                     delivered |-> answer.delivered,
                     error_code |-> answer.error_code,
                     points |-> answer.points]
         result == GetResult(answer)
         n == Len(result.points)
         d == IF n = 0 THEN read ELSE result.points[n].time_from_start
         goal == [joint_names |-> c.joint_names,
                  points |-> result.points,
                  goal_time_tolerance |-> GoalTimeTolerance]
     IN /\ ~mp.exited
        /\ ShouldPlan(c)
        /\ IF PlanFailed(result)
           THEN PlanFailure(request)
           ELSE IF n = 0 /\ crash
           THEN /\ events' = Append(events, request)
                /\ mpc' = "crashed"
                /\ UNCHANGED <<mi, max_duration, mret>>
           ELSE /\ max_duration' = Max(max_duration, d)
                /\ events' = events \o
                     <<request, [op |-> "sendGoal", chain |-> mi, goal |-> goal]>>
                /\ AfterDispatch(mi)
                /\ UNCHANGED mret
  /\ UNCHANGED <<target, wait_failed, notMove>>

\* How a wait on a command channel can end.
WaitOutcomes == {"succeeded", "aborted", "timeout"}

\* Lines 228-232: one wait of the second loop; its outcome is not read.
WaitForResult(outcome) ==
  /\ mpc = "wait"
  /\ mi <= Len(controllers_)
  /\ events' = Append(events, [op |-> "waitForResult", chain |-> mi,
                               timeout |-> WaitTimeout(max_duration)])
  /\ wait_failed' = (wait_failed \/ outcome # "succeeded")
  /\ mi' = mi + 1
  /\ UNCHANGED <<mpc, max_duration, target, mret, notMove>>

\* A slip of line 234: the outcome of the waits decides the value returned.
ReturnChecksClients ==
  /\ mpc = "wait"
  /\ mi > Len(controllers_)
  /\ mret' = IF wait_failed THEN "false" ELSE "true"
  /\ mpc' = "returned"
  /\ UNCHANGED <<mi, max_duration, target, events, wait_failed, notMove>>

\* Line 234.
ReturnTrue ==
  /\ mpc = "wait"
  /\ mi > Len(controllers_)
  /\ mret' = "true"
  /\ mpc' = "returned"
  /\ UNCHANGED <<mi, max_duration, target, events, wait_failed, notMove>>

\* The states a call of moveToState is passed.
TargetStates ==
  {EmptyState,
   [name |-> <<"j1">>, position |-> <<10>>, velocity |-> <<0>>],
   [name |-> <<"j2", "j1">>, position |-> <<20, 10>>, velocity |-> <<0, 0>>],
   [name |-> <<"j1", "j1">>, position |-> <<10, 20>>, velocity |-> <<0, 0>>]}

InitMove ==
  /\ \E params \in Configurations, mgUp \in BOOLEAN : Constructed(params, mgUp, 0)
  /\ MoveIdle
  /\ StreamIdle
  /\ SettleIdle
  /\ now = 0
  /\ LockIdle

NextMove ==
  \/ \E t \in TargetStates : MoveToState(t)
  \/ DispatchExit
  \/ DispatchDirect
  \/ \E answer \in PlannerAnswers, crash \in BOOLEAN, read \in EmptyReadValues :
       DispatchPlanned(answer, crash, read)
  \/ \E outcome \in WaitOutcomes : WaitForResult(outcome)
  \/ ReturnTrue

SpecMove == InitMove /\ [][NextMove]_vars

\* ------------------------------------------------- moveToState: properties
Chains == 1..Len(controllers_)
EventsOf(op) == {a \in 1..Len(events) : events[a].op = op}
SendsTo(k) == {a \in EventsOf("sendGoal") : events[a].chain = k}
WaitsOn(k) == {a \in EventsOf("waitForResult") : events[a].chain = k}
PlansFor(k) == {a \in EventsOf("plan") : events[a].chain = k}

\* Plan requests the planner answered with a non-success error code.
RefusedPlans ==
  {a \in EventsOf("plan") : events[a].delivered /\ events[a].error_code # "SUCCESS"}
\* Plan requests whose 60 s wait elapsed with no result delivered.
UnansweredPlans == {a \in EventsOf("plan") : ~events[a].delivered}

\* C1: in a call of moveToState no waitForResult on a command channel comes
\* before a sendGoal on any command channel, no chain is sent two goals, and
\* once the call waits or has returned true every registered chain has been
\* sent exactly one goal.
C1_GoalsSentBeforeAnyWait ==
  /\ \A a \in EventsOf("waitForResult"), b \in EventsOf("sendGoal") : b < a
  /\ \A k \in Chains : Cardinality(SendsTo(k)) <= 1
  /\ (mpc = "wait" \/ (mpc = "returned" /\ mret = "true")) =>
       \A k \in Chains : Cardinality(SendsTo(k)) = 1
  /\ EventsOf("waitForResult") # {} =>
       \A k \in Chains : Cardinality(SendsTo(k)) = 1

\* A call over two chains, one planned, that sent both goals and then waited
\* on both channels.
C1_Witness ==
  /\ mpc = "returned" /\ mret = "true"
  /\ Len(controllers_) = 2
  /\ \E k \in Chains : ShouldPlan(controllers_[k])
  /\ \E k \in Chains : ~ShouldPlan(controllers_[k])
  /\ Cardinality(EventsOf("waitForResult")) = 2

\* C2: a plan request answered with a non-success error code for chain k is
\* the last call moveToState makes: it has returned false, no goal went to k
\* or a later chain, no other plan request and no waitForResult follows, and
\* exactly the chains before k hold one goal each.
C2_PlanFailureReturnsFalseAtOnce ==
  \A a \in RefusedPlans :
    LET k == events[a].chain
    IN /\ a = Len(events)
       /\ mpc = "returned" /\ mret = "false"
       /\ EventsOf("waitForResult") = {}
       /\ \A j \in Chains : Cardinality(SendsTo(j)) = (IF j < k THEN 1 ELSE 0)
       /\ \A j \in Chains : j > k => PlansFor(j) = {}

\* The planner refuses the second chain after the first chain's goal went out.
C2_Witness ==
  /\ \E a \in RefusedPlans : events[a].chain = 2
  /\ SendsTo(1) # {}

\* C3: moveToState returns true exactly when no plan request of the call
\* ended without success; neither false nor the end of the process follows a
\* waitForResult, whatever the waits' outcomes and the channels' connections,
\* and a true return follows one wait on every chain.
C3_ReturnsTrueUnlessPlanFails ==
  /\ mpc = "returned" =>
       (mret = "true" <=> (RefusedPlans \cup UnansweredPlans) = {})
  /\ mpc = "returned" /\ mret = "true" =>
       \A k \in Chains : Cardinality(WaitsOn(k)) = 1
  /\ EventsOf("waitForResult") # {} =>
       mpc \in {"wait", "returned"} /\ mret # "false"

\* A true return after a wait that failed, on a channel that never connected.
C3_Witness ==
  /\ mpc = "returned" /\ mret = "true"
  /\ wait_failed
  /\ \E k \in Chains : ~controllers_[k].connected

\* Final-waypoint times of the planned trajectories of this call.
FinalTimes ==
  {events[a].points[Len(events[a].points)].time_from_start :
     a \in {b \in EventsOf("plan") : events[b].delivered
                                     /\ events[b].error_code = "SUCCESS"
                                     /\ events[b].points # <<>>}}

\* The largest of the configured duration and the final-waypoint times.
LongestDuration ==
  CHOOSE d \in FinalTimes \cup {duration_} :
    \A e \in FinalTimes \cup {duration_} : e <= d

\* C4: every result wait of a call uses the timeout 1.5 times the largest of
\* the configured duration and the final-waypoint times of all the planned
\* trajectories of the call (3 * d twentieths for d tenths of a second).
C4_WaitTimeoutIsLongestDuration ==
  \A a \in EventsOf("waitForResult") : events[a].timeout = 3 * LongestDuration

\* The part of C4 the code does keep: all waits of a call share one timeout,
\* which is never below 1.5 times the configured duration, and it is the
\* claimed one in every call whose planned trajectories all have a waypoint.
C4_HoldsWithWaypoints ==
  /\ \A a, b \in EventsOf("waitForResult") : events[a].timeout = events[b].timeout
  /\ \A a \in EventsOf("waitForResult") : events[a].timeout >= 3 * duration_
  /\ (\A b \in EventsOf("plan") : events[b].points # <<>>) =>
       C4_WaitTimeoutIsLongestDuration

StoreEntries ==
  {<<"j1", 10, 1>>, <<"j1", 20, 2>>, <<"j2", 10, -2>>, <<"j2", 20, 1>>}

\* The message whose arrays are the columns of a sequence of entries.
MsgOf(es) ==
  [name |-> [k \in 1..Len(es) |-> es[k][1]],
   position |-> [k \in 1..Len(es) |-> es[k][2]],
   velocity |-> [k \in 1..Len(es) |-> es[k][3]]]

\* Messages whose three arrays are of equal length.
EqualLengthMsgs(entries) == {MsgOf(es) : es \in SeqsUpTo(entries, MaxMsgLen)}

\* Messages whose arrays are not all of one length.
UnequalLengthMsgs ==
  {m \in [name : SeqsUpTo({"j1"}, MaxMsgLen),
          position : SeqsUpTo({20}, MaxMsgLen),
          velocity : SeqsUpTo({2}, MaxMsgLen)] :
     ~(Len(m.name) = Len(m.position) /\ Len(m.name) = Len(m.velocity))}

StoreMsgs == EqualLengthMsgs(StoreEntries) \cup UnequalLengthMsgs

EqualLength(m) == Len(m.name) = Len(m.position) /\ Len(m.name) = Len(m.velocity)

\* history: the values of the last entry of an equal-length message m that
\* names joint n, or what was recorded before when m does not name it.
LatestAfter(m) ==
  [n \in Joints |->
     IF EqualLength(m) /\ n \in Range(m.name)
     THEN LET k == CHOOSE i \in 1..Len(m.name) :
                     /\ m.name[i] = n
                     /\ \A j \in (i + 1)..Len(m.name) : m.name[j] # n
          IN <<m.position[k], m.velocity[k]>>
     ELSE latest[n]]

\* The subscription hands message m to stateCallback (lines 88-125).
Deliver(m) ==
  /\ Subscribed
  /\ LET st == StateCallback([state |-> state_, valid |-> state_is_valid_], m)
     IN /\ state_' = st.state
        /\ state_is_valid_' = st.valid
  /\ msg' = m
  /\ seen' = IF EqualLength(m) THEN seen \cup Range(m.name) ELSE seen
  /\ latest' = LatestAfter(m)
  /\ UNCHANGED notStream

InitStore ==
  /\ Constructed(<<DirectChain(<<"j1">>)>>, FALSE, 0)
  /\ MoveIdle
  /\ StreamIdle
  /\ SettleIdle
  /\ now = 0
  /\ LockIdle

NextStore == \E m \in StoreMsgs : Deliver(m)

SpecStore == InitStore /\ [][NextStore]_vars

\* C6: a message whose names, positions and velocities are not all of one
\* length leaves the stored names, positions, velocities and the validity
\* flag as they were, in whatever state the store was.
C6_UnequalLengthsRejected ==
  [][~EqualLength(msg') => (state_' = state_ /\ state_is_valid_' = state_is_valid_)]_vars

\* An unequal-length message was handed to a valid store holding two joints.
C6_Witness ==
  /\ ~EqualLength(msg)
  /\ state_is_valid_
  /\ Len(state_.name) = 2

\* C7: after accepted updates a snapshot holds every joint named by an
\* accepted message exactly once, with the position and velocity of its most
\* recent entry; the three arrays are of one length; and handling any message
\* twice in a row gives the store that handling it once gives.
C7_StoreHoldsLatestOncePerJoint ==
  LET st == [state |-> state_, valid |-> state_is_valid_]
      snap == GetState(st).state
  IN /\ Len(snap.name) = Len(snap.position)
     /\ Len(snap.name) = Len(snap.velocity)
     /\ \A i, j \in 1..Len(snap.name) : snap.name[i] = snap.name[j] => i = j
     /\ Range(snap.name) = seen
     /\ \A i \in 1..Len(snap.name) :
          <<snap.position[i], snap.velocity[i]>> = latest[snap.name[i]]
     /\ \A m \in StoreMsgs :
          StateCallback(StateCallback(st, m), m) = StateCallback(st, m)

\* The last message named one joint twice, with different values, and the
\* store holds two joints.
C7_Witness ==
  /\ EqualLength(msg)
  /\ Len(msg.name) = 2
  /\ msg.name[1] = msg.name[2]
  /\ msg.velocity[1] # msg.velocity[2]
  /\ Len(state_.name) = 2

\* ------------------------------------------- the state lock, two threads
\* stateCallback runs on the subscription's thread while this thread runs
\* getState or waitToSettle's invalidation (lines 255-259). A lock_guard is
\* taken when state_mutex_ is free and released at the end of its scope.
LockEntries == {<<"j1", 10, 1>>, <<"j1", 20, 2>>, <<"j2", 20, 2>>}

LockMsgs ==
  EqualLengthMsgs(LockEntries)
    \cup {[name |-> <<"j1">>, position |-> <<20>>, velocity |-> <<>>]}

notLockStep == <<cfgVars, moveVars, seen, latest, wpc, start, now, wret, touched,
                 updated, fresh, settled_at_call>>

\* Lines 88-100: the callback is entered with message m and checks its sizes.
CallbackEnter(m) ==
  /\ Subscribed
  /\ cpc = "idle"
  /\ msg' = m
  /\ cpc' = IF SizesAgree(m) THEN "lock" ELSE "idle"
  /\ UNCHANGED <<storeVars, snapshot, snapshot_valid, state_mutex_, msg_j, rpc,
                 boundary, torn, notLockStep>>

\* Line 102: std::lock_guard lock(state_mutex_).
CallbackLock ==
  /\ cpc = "lock"
  /\ state_mutex_ = "free"
  /\ state_mutex_' = "callback"
  /\ cpc' = "merge"
  /\ msg_j' = 1
  /\ boundary' = Store
  /\ UNCHANGED <<storeVars, msg, snapshot, snapshot_valid, rpc, torn, notLockStep>>

\* Lines 104-123: one pass of the loop over the message's entries.
CallbackMerge ==
  /\ cpc = "merge"
  /\ msg_j <= Len(msg.name)
  /\ state_' = MergeJoint(state_, msg, msg_j)
  /\ msg_j' = msg_j + 1
  /\ UNCHANGED <<state_is_valid_, msg, snapshot, snapshot_valid, state_mutex_,
                 cpc, rpc, boundary, torn, notLockStep>>

\* Line 124: state_is_valid_ = true.
CallbackSetValid ==
  /\ cpc = "merge"
  /\ msg_j > Len(msg.name)
  /\ state_is_valid_' = TRUE
  /\ cpc' = "unlock"
  /\ UNCHANGED <<state_, msg, snapshot, snapshot_valid, state_mutex_, msg_j,
                 rpc, boundary, torn, notLockStep>>

\* Line 125: the lock_guard goes out of scope.
CallbackUnlock ==
  /\ cpc = "unlock"
  /\ state_mutex_' = "free"
  /\ cpc' = "idle"
  /\ boundary' = Store
  /\ UNCHANGED <<storeVars, msg, snapshot, snapshot_valid, msg_j, rpc, torn,
                 notLockStep>>

\* A slip of line 129: getState goes on without taking the lock.
GetStateNoLock ==
  /\ rpc = "idle"
  /\ rpc' = "copy"
  /\ UNCHANGED <<storeVars, msg, snapshot, snapshot_valid, state_mutex_, cpc,
                 msg_j, boundary, torn, notLockStep>>

\* Line 129: getState takes the lock.
GetStateLock ==
  /\ rpc = "idle"
  /\ state_mutex_ = "free"
  /\ state_mutex_' = "reader"
  /\ rpc' = "copy"
  /\ UNCHANGED <<storeVars, msg, snapshot, snapshot_valid, cpc, msg_j, boundary,
                 torn, notLockStep>>

\* Line 130: *state = state_.
GetStateCopy ==
  /\ rpc = "copy"
  /\ snapshot' = state_
  /\ rpc' = "flag"
  /\ UNCHANGED <<storeVars, msg, snapshot_valid, state_mutex_, cpc, msg_j,
                 boundary, torn, notLockStep>>

\* Line 131: return state_is_valid_, and the lock_guard goes out of scope.
\* torn records whether the copy and the flag are the store of neither side
\* of the update the callback was making.
GetStateReturn ==
  /\ rpc = "flag"
  /\ snapshot_valid' = state_is_valid_
  /\ state_mutex_' = "free"
  /\ rpc' = "idle"
  /\ torn' = LET got == [state |-> snapshot, valid |-> state_is_valid_]
             IN got # boundary /\ got # StateCallback(boundary, msg)
  /\ UNCHANGED <<storeVars, msg, snapshot, cpc, msg_j, boundary, notLockStep>>

\* Line 257: waitToSettle takes the lock to invalidate.
InvalidateLock ==
  /\ rpc = "idle"
  /\ state_mutex_ = "free"
  /\ state_mutex_' = "reader"
  /\ rpc' = "reset"
  /\ UNCHANGED <<storeVars, msg, snapshot, snapshot_valid, cpc, msg_j, boundary,
                 torn, notLockStep>>

\* Lines 258-259: state_is_valid_ = false, and the lock_guard goes out of scope.
InvalidateWrite ==
  /\ rpc = "reset"
  /\ state_is_valid_' = FALSE
  /\ state_mutex_' = "free"
  /\ rpc' = "idle"
  /\ boundary' = [boundary EXCEPT !.valid = FALSE]
  /\ UNCHANGED <<state_, msg, snapshot, snapshot_valid, cpc, msg_j, torn,
                 notLockStep>>

InitLock ==
  /\ Constructed(<<DirectChain(<<"j1">>)>>, FALSE, 0)
  /\ MoveIdle
  /\ StreamIdle
  /\ SettleIdle
  /\ now = 0
  /\ LockIdle

NextLock ==
  \/ \E m \in LockMsgs : CallbackEnter(m)
  \/ CallbackLock
  \/ CallbackMerge
  \/ CallbackSetValid
  \/ CallbackUnlock
  \/ GetStateLock
  \/ GetStateCopy
  \/ GetStateReturn
  \/ InvalidateLock
  \/ InvalidateWrite

SpecLock == InitLock /\ [][NextLock]_vars

\* C8: with stateCallback on another thread, every step that reads or writes
\* the stored joint state or the validity flag is made by the thread that
\* holds the state lock, and the copy and flag getState returns are the store
\* as it was before or after the whole update, never in between.
C8_StoreAccessUnderLock ==
  /\ cpc \in {"merge", "unlock"} => state_mutex_ = "callback"
  /\ rpc \in {"copy", "flag", "reset"} => state_mutex_ = "reader"
  /\ ~torn

\* getState returned a copy while a callback with a two-entry message, which
\* had passed its size checks, was waiting for the lock.
C8_Witness ==
  /\ rpc = "idle"
  /\ cpc = "lock"
  /\ Len(msg.name) = 2
  /\ snapshot_valid
  /\ Len(snapshot.name) = 2
  /\ snapshot = state_

\* ------------------------------------------------------------ waitToSettle
\* Lines 276-286: the two loops over the chains and their joint names.
InChain(n) ==
  \E i \in 1..Len(controllers_) :
    \E k \in 1..Len(controllers_[i].joint_names) :
      controllers_[i].joint_names[k] = n

\* Lines 270-293: the scan of the snapshot from entry j on; FALSE when it
\* meets a joint of a chain whose velocity is not below the threshold.
RECURSIVE ScanFrom(_, _)
ScanFrom(st, j) ==
  IF j > Len(st.name) THEN TRUE
  ELSE IF Abs(st.velocity[j]) < VelThreshold THEN ScanFrom(st, j + 1)
  ELSE IF InChain(st.name[j]) THEN FALSE
  ELSE ScanFrom(st, j + 1)

\* A slip of line 273: the velocity is compared without fabs.
RECURSIVE ScanFromSigned(_, _)
ScanFromSigned(st, j) ==
  IF j > Len(st.name) THEN TRUE
  ELSE IF st.velocity[j] < VelThreshold THEN ScanFromSigned(st, j + 1)
  ELSE IF InChain(st.name[j]) THEN FALSE
  ELSE ScanFromSigned(st, j + 1)

SettledSigned(got) == IF got.valid THEN ScanFromSigned(got.state, 1) ELSE FALSE

\* Lines 264-299: settled, from what getState gave.
Settled(got) == IF got.valid THEN ScanFrom(got.state, 1) ELSE FALSE

\* The store is valid and holds every joint of every registered chain with a
\* velocity magnitude below the threshold.
StoreSettled ==
  /\ state_is_valid_
  /\ \A i \in 1..Len(controllers_) : \A k \in 1..Len(controllers_[i].joint_names) :
       \E j \in 1..Len(state_.name) :
         /\ state_.name[j] = controllers_[i].joint_names[k]
         /\ Abs(state_.velocity[j]) < VelThreshold

\* A slip of line 310: the difference is taken the other way round.
TimedOutReversed == settling_timeout_ > 0 /\ start - now > settling_timeout_

\* A slip of line 308: the elapsed time is tested also when the timeout is
\* not enabled.
TimedOutAlwaysOn == now - start > settling_timeout_

\* Lines 308-315: the timeout test; it reads the clock when the timeout is on.
TimedOut == settling_timeout_ > 0 /\ now - start > settling_timeout_

\* A slip of lines 241-259: the flag is invalidated before the chains are
\* looked at.
WaitToSettleInvalidatesFirst(alive) ==
  /\ wpc = "idle"
  /\ snapshot' = EmptyState
  /\ snapshot_valid' = FALSE
  /\ state_is_valid_' = FALSE
  /\ IF Len(controllers_) = 0
     THEN /\ wret' = "true"
          /\ wpc' = "returned"
          /\ touched' = {"invalidate"}
          /\ UNCHANGED start
     ELSE IF ~alive
     THEN /\ wret' = "false"
          /\ wpc' = "returned"
          /\ touched' = {"invalidate"}
          /\ UNCHANGED start
     ELSE /\ start' = now
          /\ touched' = {"invalidate", "clock"}
          /\ wpc' = "poll"
          /\ UNCHANGED wret
  /\ updated' = FALSE
  /\ fresh' = {}
  /\ settled_at_call' = StoreSettled
  /\ UNCHANGED <<state_, now, notSettle>>

\* A slip of lines 255-259: the validity flag is left as it was.
WaitToSettleKeepsFlag(alive) ==
  /\ wpc = "idle"
  /\ snapshot' = EmptyState
  /\ snapshot_valid' = FALSE
  /\ IF Len(controllers_) = 0
     THEN /\ wret' = "true"
          /\ wpc' = "returned"
          /\ UNCHANGED <<start, touched>>
     ELSE IF ~alive
     THEN /\ wret' = "false"
          /\ wpc' = "returned"
          /\ UNCHANGED <<start, touched>>
     ELSE /\ start' = now
          /\ touched' = {"clock"}
          /\ wpc' = "poll"
          /\ UNCHANGED wret
  /\ updated' = FALSE
  /\ fresh' = {}
  /\ settled_at_call' = StoreSettled
  /\ UNCHANGED <<state_, state_is_valid_, now, notSettle>>

\* Lines 237-261: entry. alive is whether node_ptr_.lock() gives the node.
WaitToSettle(alive) ==
  /\ wpc = "idle"
  /\ snapshot' = EmptyState
  /\ snapshot_valid' = FALSE
  /\ IF Len(controllers_) = 0
     THEN /\ wret' = "true"
          /\ wpc' = "returned"
          /\ UNCHANGED <<state_is_valid_, start, touched>>
     ELSE IF ~alive
     THEN /\ wret' = "false"
          /\ wpc' = "returned"
          /\ UNCHANGED <<state_is_valid_, start, touched>>
     ELSE /\ state_is_valid_' = FALSE
          /\ start' = now
          /\ touched' = {"invalidate", "clock"}
          /\ wpc' = "poll"
          /\ UNCHANGED wret
  /\ updated' = FALSE
  /\ fresh' = {}
  /\ settled_at_call' = StoreSettled
  /\ UNCHANGED <<state_, now, notSettle>>

\* A slip of lines 262-315: the timeout is tested before the snapshot is
\* looked at.
PollTimeoutFirst ==
  /\ wpc = "poll"
  /\ LET got == GetState(Store)
     IN /\ snapshot' = got.state
        /\ snapshot_valid' = got.valid
        /\ IF TimedOut
           THEN wret' = "false" /\ wpc' = "returned"
           ELSE IF Settled(got)
           THEN wret' = "true" /\ wpc' = "returned"
           ELSE wpc' = "timeout" /\ UNCHANGED wret
  /\ touched' = touched \cup {"snapshot"}
  /\ UNCHANGED <<storeVars, start, now, updated, fresh, settled_at_call, notSettle>>

\* Lines 262-305: getState, the scan, and the break when settled.
Poll ==
  /\ wpc = "poll"
  /\ LET got == GetState(Store)
     IN /\ snapshot' = got.state
        /\ snapshot_valid' = got.valid
        /\ IF Settled(got)
           THEN wret' = "true" /\ wpc' = "returned"
           ELSE wpc' = "timeout" /\ UNCHANGED wret
  /\ touched' = touched \cup {"snapshot"}
  /\ UNCHANGED <<storeVars, start, now, updated, fresh, settled_at_call, notSettle>>

\* Lines 307-315: exit if timed out.
TimeoutCheck ==
  /\ wpc = "timeout"
  /\ IF TimedOut
     THEN wret' = "false" /\ wpc' = "returned"
     ELSE wpc' = "spin" /\ UNCHANGED wret
  /\ touched' = IF settling_timeout_ > 0 THEN touched \cup {"clock"} ELSE touched
  /\ UNCHANGED <<storeVars, snapshot, snapshot_valid, start, now, updated, fresh,
                 settled_at_call, notSettle>>

\* Line 317: rclcpp::spin_some(node) runs stateCallback on the messages that
\* are ready, ms; then the loop starts over.
SpinSome(ms) ==
  /\ wpc = "spin"
  /\ LET st == IF ms = <<>> THEN Store ELSE StateCallback(Store, ms[1])
     IN /\ state_' = st.state
        /\ state_is_valid_' = st.valid
  /\ touched' = touched \cup {"spin"}
  /\ wpc' = "poll"
  /\ IF ms # <<>> /\ SizesAgree(ms[1])
     THEN updated' = TRUE /\ fresh' = fresh \cup Range(ms[1].name)
     ELSE UNCHANGED <<updated, fresh>>
  /\ UNCHANGED <<snapshot, snapshot_valid, start, now, wret, settled_at_call, notSettle>>

\* The subscription runs stateCallback on message m from another context
\* than waitToSettle's (lines 84-125).
StreamUpdate(m) ==
  /\ Subscribed
  /\ LET st == StateCallback(Store, m)
     IN /\ state_' = st.state
        /\ state_is_valid_' = st.valid
  /\ IF wpc \notin {"idle", "returned"} /\ SizesAgree(m)
     THEN updated' = TRUE /\ fresh' = fresh \cup Range(m.name)
     ELSE UNCHANGED <<updated, fresh>>
  /\ UNCHANGED <<wpc, snapshot, snapshot_valid, start, now, wret, touched,
                 settled_at_call, notSettle>>

\* The clock moves on.
Tick ==
  /\ now < MaxClock
  /\ now' = now + 1
  /\ UNCHANGED <<storeVars, wpc, snapshot, snapshot_valid, start, wret, touched,
                 updated, fresh, settled_at_call, notSettle>>

SettleEntries ==
  {<<"j1", 10, v>> : v \in Velocities} \cup {<<"j2", 10, v>> : v \in {-2, 1}}

\* The messages of the stream: the empty one, one per entry and one with
\* arrays of unequal length. (A longer message leaves the store as its entries
\* sent one by one do.)
SettleMsgs ==
  {MsgOf(<<>>)}
    \cup {MsgOf(<<e>>) : e \in SettleEntries}
    \cup {[name |-> <<"j1">>, position |-> <<10>>, velocity |-> <<>>]}

\* Chains as waitToSettle reads them: none, one chain, two chains of which
\* only the second holds j2.
SettleConfigurations ==
  {<<>>,
   <<DirectChain(<<"j1">>)>>,
   <<DirectChain(<<"j1">>), DirectChain(<<"j1", "j2">>)>>}

InitSettle ==
  /\ \E params \in SettleConfigurations, timeout \in SettlingTimeouts :
       Constructed(params, FALSE, timeout)
  /\ MoveIdle
  /\ StreamIdle
  /\ SettleIdle
  /\ now = 0
  /\ LockIdle

NextSettle ==
  \/ \E alive \in BOOLEAN : WaitToSettle(alive)
  \/ Poll
  \/ TimeoutCheck
  \/ \E ms \in {<<>>} \cup {<<m>> : m \in SettleMsgs} : SpinSome(ms)
  \/ \E m \in SettleMsgs : StreamUpdate(m)
  \/ Tick

SpecSettle == InitSettle /\ [][NextSettle]_vars

\* waitToSettle's thread takes its next step, spin_some returns, and the clock
\* keeps advancing (up to MaxClock).
SettleFairness ==
  /\ WF_vars(Poll)
  /\ WF_vars(TimeoutCheck)
  /\ WF_vars(\E ms \in {<<>>} \cup {<<m>> : m \in SettleMsgs} : SpinSome(ms))
  /\ WF_vars(Tick)

\* Constructed with two chains, of which only the second holds j2.
InitSettleFair ==
  /\ \E timeout \in SettlingTimeouts :
       Constructed(<<DirectChain(<<"j1">>), DirectChain(<<"j1", "j2">>)>>, FALSE, timeout)
  /\ MoveIdle
  /\ StreamIdle
  /\ SettleIdle
  /\ now = 0
  /\ LockIdle

SpecSettleFair == InitSettleFair /\ [][NextSettle]_vars /\ SettleFairness

\* ------------------------------------------------ waitToSettle: properties
\* Entries of the last snapshot that name a joint of some registered chain
\* and whose velocity magnitude is at or above the threshold.
MovingChainJoints ==
  {j \in 1..Len(snapshot.name) :
     /\ \E i \in 1..Len(controllers_) : snapshot.name[j] \in Range(controllers_[i].joint_names)
     /\ (snapshot.velocity[j] >= VelThreshold \/ snapshot.velocity[j] <= -VelThreshold)}

\* C9: with no registered chain the call of waitToSettle is one step that
\* returns true and leaves the stored state and the validity flag as they
\* were, with no snapshot taken, no invalidation, no spin_some and no clock
\* read.
C9_NoChainsReturnsTrueUntouched ==
  [][(wpc = "idle" /\ wpc' # "idle" /\ Len(controllers_) = 0) =>
       /\ wpc' = "returned"
       /\ wret' = "true"
       /\ touched' = {}
       /\ state_' = state_
       /\ state_is_valid_' = state_is_valid_]_vars

\* waitToSettle has returned true with no chain registered, the timeout set
\* and the clock past it.
C9_Witness ==
  /\ Len(controllers_) = 0
  /\ wpc = "returned"
  /\ wret = "true"
  /\ touched = {}
  /\ settling_timeout_ = 1
  /\ now = 2

\* C10: with a registered chain, once waitToSettle has taken a snapshot it
\* has returned true exactly when that last snapshot was valid and held no
\* chain joint with velocity magnitude at or above the threshold; so a moving
\* joint of no chain does not prevent true, and an invalid snapshot or a
\* moving chain joint never gives true.
C10_TrueOnlyWhenChainJointsStill ==
  (Len(controllers_) > 0 /\ wpc \in {"timeout", "spin", "returned"}) =>
    /\ wret = "true" => (snapshot_valid /\ MovingChainJoints = {})
    /\ (snapshot_valid /\ MovingChainJoints = {}) =>
         (wpc = "returned" /\ wret = "true")

\* A true return on a snapshot in which a joint of no chain moves at the
\* threshold and a chain joint moves below it.
C10_Witness ==
  /\ Len(controllers_) > 0
  /\ wpc = "returned" /\ wret = "true"
  /\ \E j \in 1..Len(snapshot.name) :
       snapshot.velocity[j] = -2 /\ ~InChain(snapshot.name[j])
  /\ \E j \in 1..Len(snapshot.name) :
       snapshot.velocity[j] = 1 /\ InChain(snapshot.name[j])

\* C11: whenever waitToSettle has returned true with a registered chain,
\* every joint named in every registered chain's joint list has an entry in
\* the copy of the store the call decided on, with a velocity magnitude below
\* the threshold.
C11_TrueMeansEveryChainJointStill ==
  (Len(controllers_) > 0 /\ wpc = "returned" /\ wret = "true") =>
    \A i \in 1..Len(controllers_) : \A k \in 1..Len(controllers_[i].joint_names) :
      \E j \in 1..Len(snapshot.name) :
        /\ snapshot.name[j] = controllers_[i].joint_names[k]
        /\ Abs(snapshot.velocity[j]) < VelThreshold

\* C12 as stated: a call of waitToSettle that found the store valid, with
\* every joint of every registered chain below the threshold, and that got
\* its node, returns true.
C12_SettledAtCallReturnsTrue ==
  (Len(controllers_) > 0 /\ settled_at_call /\ wpc = "returned" /\ "clock" \in touched) =>
    wret = "true"

\* C12, amended: when waitToSettle takes a snapshot of a store that is valid
\* and holds every joint of every registered chain below the threshold, it
\* returns true at that snapshot, without a timeout test and whatever the
\* clock reads.
C12_SettledAtSnapshotReturnsTrue ==
  [][(wpc = "poll" /\ wpc' # "poll" /\ StoreSettled) =>
       /\ wpc' = "returned"
       /\ wret' = "true"
       /\ now' = now
       /\ touched' = touched \cup {"snapshot"}]_vars

\* A true return on a snapshot holding every chain joint below the
\* threshold, taken after the timeout had elapsed, in a call that had found
\* the store valid and still.
C12_Witness ==
  /\ Len(controllers_) > 0
  /\ settled_at_call
  /\ wpc = "returned" /\ wret = "true"
  /\ "spin" \in touched
  /\ settling_timeout_ = 1 /\ start = 0 /\ now = 2
  /\ \A i \in 1..Len(controllers_) : \A k \in 1..Len(controllers_[i].joint_names) :
       \E j \in 1..Len(snapshot.name) : snapshot.name[j] = controllers_[i].joint_names[k]

\* C13: waitToSettle's loop returns false only at the timeout test, with a
\* settling timeout greater than 0 and more time elapsed since the recorded
\* start than that timeout (so never with a timeout of 0 or less); and a
\* snapshot that is valid with no moving chain joint gives true at once, also
\* when the timeout has elapsed.
C13_FalseOnlyOnElapsedTimeout ==
  [][/\ (wpc # "idle" /\ wret # "false" /\ wret' = "false") =>
          /\ wpc = "timeout"
          /\ settling_timeout_ > 0
          /\ now - start > settling_timeout_
     /\ (wpc = "timeout" /\ wpc' # "timeout") =>
          (wret' = "false" <=>
             (settling_timeout_ > 0 /\ now - start > settling_timeout_))
     /\ (wpc = "poll" /\ wpc' # "poll" /\ snapshot_valid' /\ MovingChainJoints' = {}) =>
          (wpc' = "returned" /\ wret' = "true")]_vars

\* A false return of the loop, two clock units after the start with a
\* timeout of one.
C13_Witness ==
  /\ Len(controllers_) > 0
  /\ wpc = "returned" /\ wret = "false"
  /\ "snapshot" \in touched
  /\ settling_timeout_ = 1 /\ start = 0 /\ now = 2

\* C14: with a registered chain, waitToSettle enters its loop with the
\* validity flag reset and no snapshot taken yet, and it returns true only
\* when an accepted state update was applied after the call began.
C14_TrueNeedsUpdateDuringCall ==
  [][/\ (wpc = "idle" /\ wpc' = "poll") =>
          (~state_is_valid_' /\ "snapshot" \notin touched')
     /\ (Len(controllers_) > 0 /\ wret' = "true") => updated']_vars

\* A true return, after an update during the call, of a call that had found
\* the store valid and still.
C14_Witness ==
  /\ Len(controllers_) > 0
  /\ settled_at_call
  /\ wpc = "returned" /\ wret = "true"
  /\ updated
  /\ fresh = {}

\* C15: the planning client exists exactly when some registered chain plans,
\* and then it was created and connection-checked once; every plan request
\* of moveToState went through an existing client; and every chain the
\* parameters name is registered, in order, whatever its connection and the
\* planner's connection came to.
C15_OnePlanningClientIffNeeded ==
  /\ move_group_.exists <=> (\E k \in Chains : ShouldPlan(controllers_[k]))
  /\ move_group_.inits = (IF move_group_.exists THEN 1 ELSE 0)
  /\ move_group_.waits = move_group_.inits
  /\ \A a \in EventsOf("plan") : events[a].client
  /\ Len(controllers_) = Len(chain_names)
  /\ \A k \in Chains :
       /\ controllers_[k].joint_names = chain_names[k].joints
       /\ controllers_[k].chain_planning_group = chain_names[k].planning_group
       /\ controllers_[k].connected = chain_names[k].server_up

\* Two chains that plan, the first with its command channel not connected,
\* the planner not connected, and a plan request issued for the second.
C15_Witness ==
  /\ Len(controllers_) = 2
  /\ ShouldPlan(controllers_[1]) /\ ShouldPlan(controllers_[2])
  /\ ~controllers_[1].connected
  /\ ~move_group_.connected
  /\ PlansFor(2) # {}

\* The shape of a point built for the joint list joints from state st: three
\* sequences as long as the list, zero velocities and accelerations, and at
\* each place the position of the first entry of st with that joint's name.
PointShape(p, st, joints) ==
  /\ Len(p.positions) = Len(joints)
  /\ Len(p.velocities) = Len(joints)
  /\ Len(p.accelerations) = Len(joints)
  /\ \A i \in 1..Len(joints) :
       /\ p.velocities[i] = 0
       /\ p.accelerations[i] = 0
       /\ \E j \in 1..Len(st.name) :
            /\ st.name[j] = joints[i]
            /\ \A h \in 1..(j - 1) : st.name[h] # joints[i]
            /\ p.positions[i] = st.position[j]

\* Goals sent to chains that do not plan.
DirectGoals == {a \in EventsOf("sendGoal") : ~ShouldPlan(controllers_[events[a].chain])}

\* C16: every point makePoint returns for a registered chain's joint list and
\* the state passed to moveToState has that shape, and every goal sent to a
\* directly actuated chain carries the chain's joint names and exactly one
\* waypoint of that shape, time-stamped at the configured duration.
C16_PointsCoverEveryJoint ==
  mpc # "idle" =>
    /\ \A k \in Chains :
         LET mp == MakePoint(target, controllers_[k].joint_names)
         IN ~mp.exited => PointShape(mp.p, target, controllers_[k].joint_names)
    /\ \A a \in DirectGoals :
         LET goal == events[a].goal
             joints == controllers_[events[a].chain].joint_names
         IN /\ goal.joint_names = joints
            /\ Len(goal.points) = 1
            /\ PointShape(goal.points[1], target, joints)
            /\ goal.points[1].time_from_start = duration_

\* A goal sent to a directly actuated chain of two joints, built from a state
\* that lists the joints in the other order.
C16_Witness ==
  \E a \in DirectGoals :
    /\ events[a].goal.joint_names = <<"j1", "j2">>
    /\ target.name = <<"j2", "j1">>
    /\ events[a].goal.points[1].positions = <<10, 20>>

\* Chain k's joint list holds a name the state passed to moveToState lacks.
MissingJoint(k) ==
  \E n \in Range(controllers_[k].joint_names) : n \notin Range(target.name)

\* C17: no plan request and no goal is ever issued for a chain whose joint
\* list holds a name absent from the state passed to moveToState; when the
\* dispatch loop comes to such a chain the process ends there, with no value
\* returned, nothing issued for that chain or a later one, no wait made, and
\* the goals of the chains before it sent and left as they are; so with such
\* a chain the call never gets to its waits nor returns true.
C17_MissingJointEndsProcess ==
  /\ \A k \in Chains : MissingJoint(k) => (SendsTo(k) = {} /\ PlansFor(k) = {})
  /\ mpc = "dispatch" => \A k \in 1..(mi - 1) : ~MissingJoint(k)
  /\ (\E k \in Chains : MissingJoint(k)) => (mpc # "wait" /\ mret # "true")
  /\ mpc = "exited" =>
       /\ MissingJoint(mi)
       /\ mret = "none"
       /\ EventsOf("waitForResult") = {}
       /\ \A k \in Chains : k >= mi => (SendsTo(k) = {} /\ PlansFor(k) = {})
       /\ \A k \in Chains : k < mi => Cardinality(SendsTo(k)) = 1

\* The process has ended at the second chain, after the goal of the first
\* was sent.
C17_Witness ==
  /\ mpc = "exited"
  /\ mi = 2
  /\ SendsTo(1) # {}
  /\ target.name # <<>>

\* C18: a call of waitToSettle that is in its loop with a settling timeout
\* greater than 0 eventually returns (the clock having room to pass the
\* timeout before MaxClock), whatever the stream delivers; with the timeout
\* disabled the loop is left only by a true return on a valid snapshot with
\* no moving chain joint; and the loop goes snapshot, timeout test, spin_some,
\* snapshot: one spin_some between a snapshot and the next.
C18_ReturnsIffTimeoutOrSettled ==
  /\ (wpc = "poll" /\ settling_timeout_ > 0 /\ start + settling_timeout_ < MaxClock)
       ~> (wpc = "returned")
  /\ [][/\ (wpc \notin {"idle", "returned"} /\ settling_timeout_ <= 0
              /\ wpc' = "returned") =>
             (wret' = "true" /\ snapshot_valid' /\ MovingChainJoints' = {})
        /\ (wpc = "poll" /\ wpc' # "poll") => wpc' \in {"returned", "timeout"}
        /\ (wpc = "timeout" /\ wpc' # "timeout") => wpc' \in {"returned", "spin"}
        /\ (wpc = "spin" /\ wpc' # "spin") =>
             (wpc' = "poll" /\ "spin" \in touched' /\ snapshot' = snapshot)
        /\ (wpc # "poll" /\ wpc' = "poll") => wpc \in {"idle", "spin"}
        /\ snapshot' # snapshot => wpc \in {"idle", "poll"}]_vars

\* A false return in a call during which the store never became valid.
C18_Witness ==
  /\ Len(controllers_) > 0
  /\ wpc = "returned" /\ wret = "false"
  /\ settling_timeout_ = 1
  /\ "spin" \in touched
  /\ ~updated

\* C19: when waitToSettle returns true with a registered chain, every entry
\* of the deciding snapshot that names a joint of a registered chain was
\* written by a state update applied after the call began.
C19_TrueRestsOnFreshVelocities ==
  [][(Len(controllers_) > 0 /\ wpc = "poll" /\ wpc' = "returned" /\ wret' = "true") =>
       \A j \in 1..Len(snapshot'.name) :
         InChain(snapshot'.name[j]) => snapshot'.name[j] \in fresh']_vars

\* Plan requests whose result passed the test of line 204, so that line 211
\* read the final waypoint of the trajectory.
PlansRead == EventsOf("plan") \ (RefusedPlans \cup UnansweredPlans)

\* C20: every planned trajectory whose final waypoint moveToState read has
\* at least one waypoint.
C20_FinalWaypointReadExists ==
  \A a \in PlansRead : Len(events[a].points) >= 1

====
